---- MODULE Spec2Model ----
(***************************************************************************)
(* Model of the interception proxy of scanner/proxy (server.py, handler.py,*)
(* tls.py) and of the message codec of scanner/core/interfaces.py.         *)
(*                                                                         *)
(* Text is modelled as sequences of one-character strings and bytes as     *)
(* sequences of one-character strings plus the token "xFF", a byte that is *)
(* not valid UTF-8.                                                        *)
(***************************************************************************)
EXTENDS Integers, Sequences, FiniteSets, TLC

VARIABLES
    files,       \* the certificate directory: path -> content of the file
    fileWrites,  \* path -> number of completed f.write() calls on that path
    keyCount,    \* number of key pairs generated so far (names the keys)
    faults,      \* number of I/O failures the environment has injected
    tls,         \* per thread: its position inside get_certificate_for_host
    calls,       \* per thread: number of get_certificate_for_host calls made
    codec,       \* a message on its way through to_raw and from_raw
    config,      \* ProxyServer.config and whether a storage is configured
    running,     \* ProxyServer.running
    server_socket, \* ProxyServer.server_socket
    startPc,     \* position of the thread inside ProxyServer.start
    stopPc,      \* position of the thread inside ProxyServer.stop
    accepted,    \* number of connections accept() has returned
    history,     \* ProxyServer.history
    conn,        \* per accepted connection: the state of its ProxyHandler
    intercept_enabled, \* ProxyServer.intercept_enabled
    caller,      \* the user of the ProxyServer API: the lists get_history returned
    stalled,     \* the peers that have stopped sending and never close
    tun          \* one run of ProxyHandler._tunnel and the two peers' buffers

caVars == <<files, fileWrites, keyCount, tls, calls>>
srvVars == <<config, running, server_socket, startPc, stopPc, accepted>>
envVars == <<intercept_enabled, caller, stalled, tun>>
vars == <<files, fileWrites, keyCount, faults, tls, calls, codec, config, running,
          server_socket, startPc, stopPc, accepted, history, conn,
          intercept_enabled, caller, stalled, tun>>

(***************************************************************************)
(* Bounds                                                                  *)
(***************************************************************************)
MaxThreads == 2
MaxCalls == 1
MaxFaults == 1
MaxRelay == 1
MaxChunks == 2
BufCap == 1

Threads == 1..MaxThreads

(***************************************************************************)
(* Text helpers                                                            *)
(***************************************************************************)
CR == "\r"
LF == "\n"
CRLF == <<CR, LF>>
SP == " "
COLON == ":"
BadByte == "xFF"

\* str.replace(old, new) for one-character old and new
Replace(s, old, new) == [i \in 1..Len(s) |-> IF s[i] = old THEN new ELSE s[i]]

\* a mapping extended or overwritten at one key
Put(f, k, v) == [x \in DOMAIN f \cup {k} |-> IF x = k THEN v ELSE f[x]]

Count(f, k) == IF k \in DOMAIN f THEN f[k] ELSE 0

\* pat occurs in s at index i
OccursAt(s, pat, i) ==
    /\ i + Len(pat) - 1 <= Len(s)
    /\ \A j \in 1..Len(pat) : s[i + j - 1] = pat[j]

\* str.find(pat) + 1: the first index at which pat occurs in s, 0 if none
Find(s, pat) ==
    IF \E i \in 1..Len(s) : OccursAt(s, pat, i)
    THEN CHOOSE i \in 1..Len(s) :
            /\ OccursAt(s, pat, i)
            /\ \A j \in 1..(i - 1) : ~OccursAt(s, pat, j)
    ELSE 0

\* pat in s
Contains(s, pat) == Find(s, pat) # 0

\* s.startswith(pat)
StartsWith(s, pat) == OccursAt(s, pat, 1)

\* s.split(pat, n): at most n splits; n = -1 for no limit
RECURSIVE Split(_, _, _)
Split(s, pat, n) ==
    IF n = 0 \/ Find(s, pat) = 0
    THEN <<s>>
    ELSE <<SubSeq(s, 1, Find(s, pat) - 1)>>
         \o Split(SubSeq(s, Find(s, pat) + Len(pat), Len(s)), pat, n - 1)

\* sep.join(parts)
RECURSIVE Join(_, _)
Join(parts, sep) ==
    IF Len(parts) = 0 THEN <<>>
    ELSE IF Len(parts) = 1 THEN parts[1]
    ELSE parts[1] \o sep \o Join(Tail(parts), sep)

Whitespace == {SP, CR, LF, "\t"}

\* str.strip()
RECURSIVE LStrip(_)
LStrip(s) == IF Len(s) > 0 /\ s[1] \in Whitespace THEN LStrip(Tail(s)) ELSE s
RECURSIVE RStrip(_)
RStrip(s) ==
    IF Len(s) > 0 /\ s[Len(s)] \in Whitespace
    THEN RStrip(SubSeq(s, 1, Len(s) - 1)) ELSE s
Strip(s) == RStrip(LStrip(s))

\* bytes.decode('utf-8', errors='ignore'): bytes that are not UTF-8 are dropped
Decode(b) == SelectSeq(b, LAMBDA x : x # BadByte)

\* str.encode() of ASCII text
Encode(s) == s

\* str.lower() on one character
LowerChar(c) ==
    CASE c = "H" -> "h"
      [] c = "K" -> "k"
      [] OTHER -> c
Lower(s) == [i \in 1..Len(s) |-> LowerChar(s[i])]

(***************************************************************************)
(* scanner/core/interfaces.py : HttpMethod, HttpRequest                    *)
(***************************************************************************)
HttpMethod == {<<"G", "E", "T">>, <<"P", "O", "S", "T">>, <<"P", "U", "T">>,
               <<"D", "E", "L", "E", "T", "E">>, <<"P", "A", "T", "C", "H">>,
               <<"H", "E", "A", "D">>, <<"O", "P", "T", "I", "O", "N", "S">>}

HTTP11 == <<"H", "T", "T", "P", "/", "1", ".", "1">>

\* Optional[bytes]
None == [none |-> TRUE, bytes |-> <<>>]
Bytes(b) == [none |-> FALSE, bytes |-> b]

\* a dict: the sequence of its (key, value) items in insertion order
DictGet(d, k) == d[CHOOSE i \in 1..Len(d) : d[i][1] = k][2]
DictHas(d, k) == \E i \in 1..Len(d) : d[i][1] = k
\* d[k] = v
DictSet(d, k, v) ==
    IF DictHas(d, k)
    THEN [i \in 1..Len(d) |-> IF d[i][1] = k THEN <<k, v>> ELSE d[i]]
    ELSE Append(d, <<k, v>>)

\* lines 60-64 and 102-106: the header lines after the first line
RECURSIVE ParseHeaders(_, _)
ParseHeaders(lines, headers) ==
    IF Len(lines) = 0 THEN headers
    ELSE ParseHeaders(Tail(lines),
            IF Contains(lines[1], <<COLON>>)
            THEN DictSet(headers,
                         Strip(Split(lines[1], <<COLON>>, 1)[1]),
                         Strip(Split(lines[1], <<COLON>>, 1)[2]))
            ELSE headers)

\* the f"{key}: {value}" lines of to_raw
HeaderLines(headers) ==
    [i \in 1..Len(headers) |-> headers[i][1] \o <<COLON, SP>> \o headers[i][2]]

\* HttpRequest.to_raw
RequestToRaw(r) ==
    Encode(Join(<<r.method \o <<SP>> \o r.url \o <<SP>> \o HTTP11>>
                \o HeaderLines(r.headers)
                \o <<<<>>>>
                \o (IF ~r.body.none /\ Len(r.body.bytes) > 0
                    THEN <<Decode(r.body.bytes)>> ELSE <<>>),
                CRLF))

ParseError == [ok |-> FALSE, method |-> <<>>, url |-> <<>>, headers |-> <<>>,
               body |-> None]

\* HttpRequest.from_raw; ParseError stands for the ValueError it raises
RequestFromRaw(raw) ==
    LET parts == Split(raw, CRLF \o CRLF, 1)
        headers_raw == Decode(parts[1])
        body == IF Len(parts) > 1 THEN Bytes(parts[2]) ELSE None
        lines == Split(headers_raw, CRLF, -1)
        request_line == Split(lines[1], <<SP>>, 2)
    IN  IF Len(request_line) < 3 THEN ParseError
        ELSE IF request_line[1] \notin HttpMethod THEN ParseError
        ELSE [ok |-> TRUE, method |-> request_line[1], url |-> request_line[2],
              headers |-> ParseHeaders(Tail(lines), <<>>), body |-> body]

(***************************************************************************)
(* scanner/core/interfaces.py : HttpResponse                               *)
(***************************************************************************)
Digits == <<"0", "1", "2", "3", "4", "5", "6", "7", "8", "9">>
IsDigit(ch) == \E d \in 1..10 : Digits[d] = ch
DigitValue(ch) == (CHOOSE d \in 1..10 : Digits[d] = ch) - 1

\* int(s) succeeds
IsInt(s) == Len(s) > 0 /\ \A i \in 1..Len(s) : IsDigit(s[i])

\* int(s)
RECURSIVE ToInt(_)
ToInt(s) ==
    IF Len(s) = 0 THEN 0
    ELSE 10 * ToInt(SubSeq(s, 1, Len(s) - 1)) + DigitValue(s[Len(s)])

\* int.__str__
RECURSIVE IntToStr(_)
IntToStr(n) ==
    IF n < 10 THEN <<Digits[n + 1]>>
    ELSE IntToStr(n \div 10) \o <<Digits[(n % 10) + 1]>>

ResponseParseError == [ok |-> FALSE, status_code |-> 0, headers |-> <<>>,
                       body |-> <<>>]

\* HttpResponse.to_raw
ResponseToRaw(r) ==
    Encode(Join(<<HTTP11 \o <<SP>> \o IntToStr(r.status_code)>>
                \o HeaderLines(r.headers)
                \o <<<<>>>>
                \o <<Decode(r.body)>>,
                CRLF))

\* HttpResponse.from_raw; ResponseParseError stands for the ValueError it raises
ResponseFromRaw(raw) ==
    LET parts == Split(raw, CRLF \o CRLF, 1)
        headers_raw == Decode(parts[1])
        body == IF Len(parts) > 1 THEN parts[2] ELSE <<>>
        lines == Split(headers_raw, CRLF, -1)
        status_line == Split(lines[1], <<SP>>, 2)
    IN  IF Len(status_line) < 3 THEN ResponseParseError
        ELSE IF ~IsInt(status_line[2]) THEN ResponseParseError
        ELSE [ok |-> TRUE, status_code |-> ToInt(status_line[2]),
              headers |-> ParseHeaders(Tail(lines), <<>>), body |-> body]

(***************************************************************************)
(* The codec applied to a request: r, r.to_raw(), from_raw(r.to_raw())     *)
(***************************************************************************)
UrlRoot == <<"/">>
UrlAbsA == <<"h", "t", "t", "p", ":", "/", "/", "a", "/">>

SampleHeaders ==
    { <<>>,
      << <<<<"H">>, <<"v">>>> >>,
      << <<<<"H">>, <<"v">>>>, <<<<"K">>, <<"w">>>> >>,
      << <<<<"H">>, <<"v">>>>, <<<<"h">>, <<"w">>>> >> }

SampleBodies ==
    { None, Bytes(<<>>), Bytes(<<"a">>), Bytes(<<BadByte, "a">>),
      Bytes(CRLF \o CRLF \o <<"a">>) }

SampleRequests ==
    [method : HttpMethod, url : {UrlRoot, UrlAbsA}, headers : SampleHeaders,
     body : SampleBodies]

IdleCodec == [pc |-> "idle", request |-> <<>>, raw |-> <<>>, parsed |-> <<>>]

\* r.to_raw()
SerializeRequest ==
    /\ codec.pc = "request"
    /\ codec' = [codec EXCEPT !.pc = "raw", !.raw = RequestToRaw(codec.request)]
    /\ UNCHANGED <<envVars, caVars, faults, srvVars, history, conn>>

\* HttpRequest.from_raw(raw)
ParseRequest ==
    /\ codec.pc = "raw"
    /\ codec' = [codec EXCEPT !.pc = "parsed", !.parsed = RequestFromRaw(codec.raw)]
    /\ UNCHANGED <<envVars, caVars, faults, srvVars, history, conn>>

(***************************************************************************)
(* scanner/proxy/tls.py : TLSCertificateManager                            *)
(***************************************************************************)
ExtCrt == <<".", "c", "r", "t">>
ExtKey == <<".", "k", "e", "y">>

ca_cert_path == <<"c", "a">> \o ExtCrt
ca_key_path == <<"c", "a">> \o ExtKey

HostA == <<"a">>
HostStar == <<"*", "a">>
HostUnder == <<"_", "a">>
Hosts == {HostA, HostStar, HostUnder}

EmptyFile == [kind |-> "empty"]

Exists(p) == p \in DOMAIN files

\* cert_dir / f"{hostname.replace('*', '_')}.crt"
CertPath(hostname) == Replace(hostname, "*", "_") \o ExtCrt
KeyPath(hostname) == Replace(hostname, "*", "_") \o ExtKey

IdleThread == [pc |-> "idle", hostname |-> <<>>, cert_path |-> <<>>,
               key_path |-> <<>>, ca_key |-> 0, key |-> 0]

\* the certificate built by _generate_host_certificate
HostCertificate(hostname, ca_key, key) ==
    [kind |-> "cert", cn |-> hostname, san |-> {<<"DNS", hostname>>},
     issuer |-> "Scanner CA", signer |-> ca_key, pubkey |-> key]

\* the self-signed certificate built by _generate_ca_certificate
CACertificate(key) ==
    [kind |-> "cert", cn |-> "Scanner CA", san |-> {},
     issuer |-> "Scanner CA", signer |-> key, pubkey |-> key]

PrivateKey(key) == [kind |-> "key", key |-> key]

\* _generate_ca_certificate: a new key, the self-signed certificate, and the
\* two files written
generate_ca_certificate ==
    /\ keyCount' = keyCount + 1
    /\ files' = Put(Put(files, ca_cert_path, CACertificate(keyCount + 1)),
                    ca_key_path, PrivateKey(keyCount + 1))
    /\ fileWrites' = Put(Put(fileWrites, ca_cert_path,
                             Count(fileWrites, ca_cert_path) + 1),
                         ca_key_path, Count(fileWrites, ca_key_path) + 1)

\* an ensure_certificate that generates whatever is on disk
ensure_certificate_always == generate_ca_certificate

\* ensure_certificate: generate the root pair unless both files exist
ensure_certificate ==
    IF ~Exists(ca_cert_path) \/ ~Exists(ca_key_path)
    THEN generate_ca_certificate
    ELSE UNCHANGED <<files, fileWrites, keyCount>>

EnsureCertificate ==
    /\ ensure_certificate
    /\ UNCHANGED <<envVars, faults, tls, calls, codec, srvVars, history, conn>>

\* get_certificate_for_host, lines 66-67: the two paths are computed
EnterGetCertificate(t, hostname) ==
    tls' = [tls EXCEPT ![t] = [IdleThread EXCEPT
                !.pc = "exists", !.hostname = hostname,
                !.cert_path = CertPath(hostname),
                !.key_path = KeyPath(hostname)]]

\* a thread calls get_certificate_for_host(hostname)
CallGetCertificate(t) ==
    /\ tls[t].pc = "idle"
    /\ calls[t] < MaxCalls
    /\ \E hostname \in Hosts : EnterGetCertificate(t, hostname)
    /\ calls' = [calls EXCEPT ![t] = @ + 1]
    /\ UNCHANGED <<envVars, files, fileWrites, keyCount, faults, codec, srvVars, history, conn>>

\* line 69: if cert_path.exists() and key_path.exists(): return
CheckExists(t) ==
    /\ tls[t].pc = "exists"
    /\ tls' = [tls EXCEPT ![t].pc =
                  IF Exists(tls[t].cert_path) /\ Exists(tls[t].key_path)
                  THEN "return" ELSE "load_ca"]
    /\ UNCHANGED <<envVars, files, fileWrites, keyCount, faults, calls, codec, srvVars, history, conn>>

\* lines 79-87: load the root pair (raises when it is missing or not
\* parsable) and generate the host's key pair
LoadCA(t) ==
    /\ tls[t].pc = "load_ca"
    /\ IF /\ Exists(ca_cert_path) /\ Exists(ca_key_path)
          /\ files[ca_cert_path].kind = "cert" /\ files[ca_key_path].kind = "key"
       THEN /\ keyCount' = keyCount + 1
            /\ tls' = [tls EXCEPT ![t].pc = "open_crt",
                                  ![t].ca_key = files[ca_key_path].key,
                                  ![t].key = keyCount + 1]
       ELSE /\ tls' = [tls EXCEPT ![t].pc = "raise"]
            /\ UNCHANGED keyCount
    /\ UNCHANGED <<envVars, files, fileWrites, faults, calls, codec, srvVars, history, conn>>

\* open(path, 'wb'): the file exists and is empty, or the open fails
OpenFile(t, at, path, next) ==
    /\ tls[t].pc = at
    /\ \/ /\ files' = Put(files, path, EmptyFile)
          /\ tls' = [tls EXCEPT ![t].pc = next]
          /\ UNCHANGED faults
       \/ /\ faults < MaxFaults
          /\ faults' = faults + 1
          /\ tls' = [tls EXCEPT ![t].pc = "raise"]
          /\ UNCHANGED files
    /\ UNCHANGED <<envVars, fileWrites, keyCount, calls, codec, srvVars, history, conn>>

\* f.write(...): the whole content is in the file
WriteFile(t, at, path, content, next) ==
    /\ tls[t].pc = at
    /\ files' = Put(files, path, content)
    /\ fileWrites' = Put(fileWrites, path, Count(fileWrites, path) + 1)
    /\ tls' = [tls EXCEPT ![t].pc = next]
    /\ UNCHANGED <<envVars, keyCount, faults, calls, codec, srvVars, history, conn>>

\* lines 113-114
OpenCertFile(t) == OpenFile(t, "open_crt", tls[t].cert_path, "write_crt")
WriteCertFile(t) ==
    WriteFile(t, "write_crt", tls[t].cert_path,
              HostCertificate(tls[t].hostname, tls[t].ca_key, tls[t].key),
              "open_key")
\* lines 117-118
OpenKeyFile(t) == OpenFile(t, "open_key", tls[t].key_path, "write_key")
WriteKeyFile(t) ==
    WriteFile(t, "write_key", tls[t].key_path, PrivateKey(tls[t].key), "return")

\* the call is over: it returned the two paths or it raised
LeaveGetCertificate(t) ==
    /\ tls[t].pc \in {"return", "raise"}
    /\ tls' = [tls EXCEPT ![t] = IdleThread]
    /\ UNCHANGED <<envVars, files, fileWrites, keyCount, faults, calls, codec, srvVars, history, conn>>

GetCertificateStep(t) ==
    \/ CheckExists(t)
    \/ LoadCA(t)
    \/ OpenCertFile(t)
    \/ WriteCertFile(t)
    \/ OpenKeyFile(t)
    \/ WriteKeyFile(t)

(***************************************************************************)
(* urllib.parse.urlparse, as far as the handler uses it                    *)
(***************************************************************************)
Letters == {"h", "t", "p", "s", "a", "b"}

\* the scheme: the letters before the first ':' (empty when there is none)
UrlScheme(url) ==
    LET i == Find(url, <<COLON>>)
    IN  IF i > 1 /\ \A j \in 1..(i - 1) : url[j] \in Letters
        THEN Lower(SubSeq(url, 1, i - 1)) ELSE <<>>

\* the netloc: what follows "//" up to the next '/'
UrlNetloc(url) ==
    LET rest == IF Len(UrlScheme(url)) > 0
                THEN SubSeq(url, Len(UrlScheme(url)) + 2, Len(url)) ELSE url
    IN  IF StartsWith(rest, <<"/", "/">>)
        THEN Split(SubSeq(rest, 3, Len(rest)), <<"/">>, 1)[1]
        ELSE <<>>

\* parsed.hostname or '', parsed.port or 0
UrlHostname(url) == Lower(Split(UrlNetloc(url), <<COLON>>, 1)[1])
UrlPort(url) ==
    LET p == Split(UrlNetloc(url), <<COLON>>, 1)
    IN  IF Len(p) > 1 /\ IsInt(p[2]) THEN ToInt(p[2]) ELSE 0

\* str.split(): split on runs of whitespace
RECURSIVE WSplit(_)
WSplit(s) ==
    LET t == LStrip(s)
        ends == {i \in 1..Len(t) : t[i] \in Whitespace}
        e == IF ends = {} THEN Len(t) + 1
             ELSE CHOOSE i \in ends : \A j \in ends : i <= j
    IN  IF Len(t) = 0 THEN <<>>
        ELSE <<SubSeq(t, 1, e - 1)>> \o WSplit(SubSeq(t, e, Len(t)))

(***************************************************************************)
(* scanner/core/config.py : ProxyConfig                                    *)
(***************************************************************************)
\* ProxyConfig.intercept_all, at its default
intercept_all == FALSE

(***************************************************************************)
(* What the peers send                                                     *)
(***************************************************************************)
CONNECT == <<"C", "O", "N", "N", "E", "C", "T">>
GET == <<"G", "E", "T">>
Port443 == <<"4", "4", "3">>

ConnectLine(host) ==
    CONNECT \o <<SP>> \o host \o <<COLON>> \o Port443 \o <<SP>> \o HTTP11
    \o CRLF \o CRLF
\* a CONNECT whose target names no port
ConnectNoPort(host) == CONNECT \o <<SP>> \o host \o <<SP>> \o HTTP11 \o CRLF \o CRLF
GetLine(url) == GET \o <<SP>> \o url \o <<SP>> \o HTTP11 \o CRLF \o CRLF
Garbage == <<"?", "?">>

\* the first bytes a client sends on a new connection
ClientData ==
    { <<>>, ConnectLine(HostA), ConnectNoPort(HostA), GetLine(UrlAbsA), Garbage }

\* the request a client sends inside an intercepted TLS session
TlsClientData == { <<>>, GetLine(UrlRoot) }

ResponseHead == HTTP11 \o <<SP, "2", "0", "0", SP, "O", "K">> \o CRLF \o CRLF
ResponseOK == ResponseHead \o <<"h", "i">>

\* socket.recv(4096)
RecvSize == 4096

\* "fill" stands for a run of body bytes that makes ResponseHead a full buffer
FillLen == 4077
ByteLen(b) ==
    Len(b) + Cardinality({i \in 1..Len(b) : b[i] = "fill"}) * (FillLen - 1)

\* what an upstream sends in answer, as the chunks recv() returns one by one
UpstreamData ==
    { <<ResponseOK>>, <<Garbage>>, <<ResponseHead \o <<"fill">>>> }

\* the answer an upstream sends inside an intercepted TLS session
TlsUpstreamData == { <<>>, ResponseOK }

(***************************************************************************)
(* What surrounds the proxy: the API user and the peers                    *)
(***************************************************************************)
\* server.py line 30: self.intercept_enabled = False; nothing was returned
\* by get_history yet; no peer has stalled; _tunnel is not running; built
\* counts the servers constructed on a directory that held the root pair
IdleCaller == [lists |-> <<>>, set_at |-> -1, built |-> 0]
IdleTunnel == [pc |-> "none"]

NoEnv ==
    /\ intercept_enabled = FALSE
    /\ caller = IdleCaller
    /\ stalled = {}
    /\ tun = IdleTunnel

(***************************************************************************)
(* scanner/proxy/handler.py : ProxyHandler                                 *)
(***************************************************************************)
Conns == Threads

NoConn ==
    [pc |-> "none", mode |-> "none", data |-> <<>>, target_host |-> <<>>, target_port |-> 0,
     client_socket |-> "none", target_socket |-> "none",
     client_ssl |-> "none", target_ssl |-> "none",
     request |-> ParseError, request_data |-> <<>>,
     upstream |-> <<>>, response_data |-> <<>>,
     written |-> <<>>, sent |-> <<>>, forwarded |-> <<>>, callbacks |-> 0,
     relayed |-> 0, dial |-> "none", failed |-> FALSE]

Msg200 == <<"200 Connection established">>
Msg502 == <<"502 Bad Gateway">>

\* an I/O error of the environment may be injected
MayFault == faults < MaxFaults

Goto(c, pc) == conn' = [conn EXCEPT ![c].pc = pc]

Localhost == <<"l", "o", "c", "a", "l", "h", "o", "s", "t">>
Https == <<"h", "t", "t", "p", "s">>

\* line 56: finally: self.client_socket.close(); the handler thread ends
handle_finally(h) == [h EXCEPT !.pc = "done", !.client_socket = "closed"]

\* a _handle_connect without the finally of lines 84-85
connect_finally_leaks(h) == handle_finally(h)

\* lines 84-85: finally: target_socket.close(); then handle's finally
connect_finally(h) == handle_finally([h EXCEPT !.target_socket = "closed"])

\* lines 122-127: finally: client_ssl.close(); target_ssl.close(); the except
\* of line 126 swallows what was raised and _handle_connect goes on to its
\* own finally
tls_finally(h) ==
    connect_finally([h EXCEPT !.client_ssl = "closed", !.target_ssl = "closed"])

\* an exception is raised in the handler
Raise(h) == [h EXCEPT !.failed = TRUE]

\* _handle_connect, lines 61-64: the target of the CONNECT line; ok is false
\* when the code raises IndexError or ValueError
ConnectTarget(data) ==
    LET lines == Split(Decode(data), CRLF, -1)
        words == WSplit(lines[1])
        parts == IF Len(words) > 1 THEN Split(words[2], <<COLON>>, -1) ELSE <<>>
    IN  IF Len(parts) = 2 /\ IsInt(parts[2])
        THEN [ok |-> TRUE, host |-> parts[1], port |-> ToInt(parts[2])]
        ELSE [ok |-> FALSE, host |-> <<>>, port |-> 0]

\* _handle_connect up to the dial; what lines 61-64 raise reaches handle
handle_connect(h, data) ==
    IF ConnectTarget(data).ok
    THEN [h EXCEPT !.pc = "connect_dial", !.mode = "CONNECT", !.data = data,
                   !.target_host = ConnectTarget(data).host,
                   !.target_port = ConnectTarget(data).port]
    ELSE handle_finally(Raise([h EXCEPT !.mode = "CONNECT", !.data = data]))

\* _should_exclude
should_exclude(url) ==
    \E domain \in config.exclude_domains : Contains(UrlHostname(url), domain)

\* lines 136-138: the result of the exclusion check selects between a branch
\* that is "pass" and no branch: the request is handled the same way
InterceptBranch(url) == intercept_all \/ ~should_exclude(url)

\* _handle_http up to the dial, lines 131-143
handle_http(h, data) ==
    LET request == RequestFromRaw(data)
    IN  IF request.ok
        THEN [h EXCEPT !.pc = "http_dial", !.mode = "HTTP", !.data = data,
                 !.request = request,
                 !.target_host = IF UrlHostname(request.url) # <<>>
                                 THEN UrlHostname(request.url) ELSE Localhost,
                 !.target_port = IF UrlPort(request.url) # 0
                                 THEN UrlPort(request.url)
                                 ELSE IF UrlScheme(request.url) = Https
                                      THEN 443 ELSE 80]
        ELSE Raise([h EXCEPT !.pc = "http_502", !.mode = "HTTP", !.data = data])

\* handle, lines 42-52: the first read and the dispatch on its first word
handle(h, data) ==
    IF Len(data) = 0 THEN handle_finally(h)
    ELSE IF StartsWith(Decode(data), CONNECT) THEN handle_connect(h, data)
    ELSE handle_http(h, data)

\* line 42 with the first bytes drawn from a set of samples
HandleRecvFrom(c, samples) ==
    /\ conn[c].pc = "start"
    /\ \/ /\ \E data \in samples : conn' = [conn EXCEPT ![c] = handle(conn[c], data)]
          /\ UNCHANGED faults
       \/ /\ MayFault
          /\ faults' = faults + 1
          /\ conn' = [conn EXCEPT ![c] = handle_finally(Raise(conn[c]))]
    /\ UNCHANGED <<envVars, caVars, codec, srvVars, history>>

HandleRecv(c) == HandleRecvFrom(c, ClientData)

\* lines 67-69: the upstream socket is created and dialled
ConnectDial(c) ==
    /\ conn[c].pc = "connect_dial"
    /\ \/ conn' = [conn EXCEPT ![c].pc = "connect_200", ![c].dial = "ok",
                               ![c].target_socket = "open"]
       \/ conn' = [conn EXCEPT ![c].pc = "connect_502", ![c].dial = "failed",
                               ![c].target_socket = "open", ![c].failed = TRUE]
    /\ UNCHANGED <<envVars, caVars, faults, codec, srvVars, history>>

\* lines 72-79: the 200 is sent, then interception or the raw tunnel
Connect200(c) ==
    /\ conn[c].pc = "connect_200"
    /\ \/ /\ conn' = [conn EXCEPT ![c].written = Append(@, Msg200),
                         ![c].sent = Append(@, Msg200),
                         ![c].pc = IF config.tls_intercept
                                   THEN "tls_getcert" ELSE "tunnel"]
          /\ UNCHANGED faults
       \/ /\ MayFault
          /\ faults' = faults + 1
          /\ conn' = [conn EXCEPT ![c].written = Append(@, Msg200),
                                  ![c].pc = "connect_502", ![c].failed = TRUE]
    /\ UNCHANGED <<envVars, caVars, codec, srvVars, history>>

\* lines 81-85: except: the 502 is sent, finally
connect_except(h) ==
    connect_finally([h EXCEPT !.written = Append(@, Msg502),
                              !.sent = Append(@, Msg502)])

\* lines 81-85; the send of the 502 may itself raise
Connect502(c) ==
    /\ conn[c].pc = "connect_502"
    /\ \/ /\ conn' = [conn EXCEPT ![c] = connect_except(conn[c])]
          /\ UNCHANGED faults
       \/ /\ MayFault
          /\ faults' = faults + 1
          /\ conn' = [conn EXCEPT ![c] =
                         connect_finally([conn[c] EXCEPT !.written = Append(@, Msg502)])]
    /\ UNCHANGED <<envVars, caVars, codec, srvVars, history>>

\* line 91: self.tls_manager.get_certificate_for_host(target_host) is entered
TlsGetCertificate(c) ==
    /\ conn[c].pc = "tls_getcert"
    /\ tls[c].pc = "idle"
    /\ EnterGetCertificate(c, conn[c].target_host)
    /\ Goto(c, "tls_cert_wait")
    /\ UNCHANGED <<envVars, files, fileWrites, keyCount, calls, faults, codec, srvVars, history>>

\* line 91 returns the two paths, or raises into the except of line 126
TlsGotCertificate(c) ==
    /\ conn[c].pc = "tls_cert_wait"
    /\ tls[c].pc \in {"return", "raise"}
    /\ tls' = [tls EXCEPT ![c] = IdleThread]
    /\ conn' = [conn EXCEPT ![c] =
                  IF tls[c].pc = "return"
                  THEN [conn[c] EXCEPT !.pc = "tls_wrap_client"]
                  ELSE connect_finally(Raise(conn[c]))]
    /\ UNCHANGED <<envVars, files, fileWrites, keyCount, calls, faults, codec, srvVars, history>>

\* context.load_cert_chain(cert_path, key_path) accepts a certificate and the
\* private key of its public key
LoadCertChainOK(cert_path, key_path) ==
    /\ Exists(cert_path) /\ Exists(key_path)
    /\ files[cert_path].kind = "cert" /\ files[key_path].kind = "key"
    /\ files[cert_path].pubkey = files[key_path].key

\* lines 94-97: the client side is wrapped: the server-side handshake
TlsWrapClient(c) ==
    /\ conn[c].pc = "tls_wrap_client"
    /\ IF LoadCertChainOK(CertPath(conn[c].target_host), KeyPath(conn[c].target_host))
       THEN \/ conn' = [conn EXCEPT ![c].pc = "tls_wrap_target",
                                    ![c].client_ssl = "open"]
            \/ conn' = [conn EXCEPT ![c] = connect_finally(Raise(conn[c]))]
       ELSE conn' = [conn EXCEPT ![c] = connect_finally(Raise(conn[c]))]
    /\ UNCHANGED <<envVars, caVars, faults, codec, srvVars, history>>

\* a handler that goes on to the decrypted exchange whether or not the
\* upstream handshake succeeded
TlsWrapTarget_unchecked(c) ==
    /\ conn[c].pc = "tls_wrap_target"
    /\ \/ conn' = [conn EXCEPT ![c].pc = "tls_recv_req", ![c].target_ssl = "open"]
       \/ conn' = [conn EXCEPT ![c].pc = "tls_recv_req", ![c].failed = TRUE]
    /\ UNCHANGED <<envVars, caVars, faults, codec, srvVars, history>>

\* lines 100-102: the upstream side is wrapped: the client-side handshake;
\* when it fails the inner try of line 105 was never entered
TlsWrapTarget(c) ==
    /\ conn[c].pc = "tls_wrap_target"
    /\ \/ conn' = [conn EXCEPT ![c].pc = "tls_recv_req", ![c].target_ssl = "open"]
       \/ conn' = [conn EXCEPT ![c] = connect_finally(Raise(conn[c]))]
    /\ UNCHANGED <<envVars, caVars, faults, codec, srvVars, history>>

\* lines 107-108: the decrypted request is read
TlsRecvRequest(c) ==
    /\ conn[c].pc = "tls_recv_req"
    /\ \/ /\ \E d \in TlsClientData :
                conn' = [conn EXCEPT ![c].request_data = d,
                            ![c].pc = IF Len(d) > 0 THEN "tls_send_req" ELSE "tunnel"]
          /\ UNCHANGED faults
       \/ /\ MayFault
          /\ faults' = faults + 1
          /\ conn' = [conn EXCEPT ![c] = tls_finally(Raise(conn[c]))]
    /\ UNCHANGED <<envVars, caVars, codec, srvVars, history>>

\* line 110: target_ssl.sendall(request_data)
TlsSendRequest(c) ==
    /\ conn[c].pc = "tls_send_req"
    /\ \/ /\ conn' = [conn EXCEPT ![c].forwarded = Append(@, conn[c].request_data),
                                  ![c].pc = "tls_recv_resp"]
          /\ UNCHANGED faults
       \/ /\ MayFault
          /\ faults' = faults + 1
          /\ conn' = [conn EXCEPT ![c] = tls_finally(Raise(conn[c]))]
    /\ UNCHANGED <<envVars, caVars, codec, srvVars, history>>

\* an AttributeError that is not caught at line 126 and reaches the except of
\* line 80
parse_and_log_escapes(h) ==
    connect_except(Raise([h EXCEPT !.client_ssl = "closed", !.target_ssl = "closed"]))

\* line 116: self._parse_and_log(request_data, response_data): ProxyHandler
\* has no attribute _parse_and_log, the lookup raises AttributeError; lines
\* 117-121 are not reached
parse_and_log(h) == tls_finally(Raise(h))

\* lines 113-116: the decrypted response is read and, when not empty, handed
\* to _parse_and_log
TlsRecvResponse(c) ==
    /\ conn[c].pc = "tls_recv_resp"
    /\ \/ /\ \E d \in TlsUpstreamData :
                conn' = [conn EXCEPT ![c] =
                    IF Len(d) > 0
                    THEN parse_and_log([conn[c] EXCEPT !.response_data = d])
                    ELSE [conn[c] EXCEPT !.response_data = d, !.pc = "tunnel"]]
          /\ UNCHANGED faults
       \/ /\ MayFault
          /\ faults' = faults + 1
          /\ conn' = [conn EXCEPT ![c] = tls_finally(Raise(conn[c]))]
    /\ UNCHANGED <<envVars, caVars, codec, srvVars, history>>

\* where _tunnel returns to: line 121 (inside the try of line 105) or line 79
tunnel_return(h) ==
    IF h.client_ssl = "open" THEN tls_finally(h) ELSE connect_finally(h)

\* _tunnel: one round of the select loop: bytes of the client are relayed, or
\* bytes of the upstream are, or the loop ends (nothing readable for 1 s, a
\* side closed, or an exception, which line 210 swallows)
Tunnel(c) ==
    /\ conn[c].pc = "tunnel"
    /\ \/ /\ conn[c].relayed < MaxRelay
          /\ conn' = [conn EXCEPT ![c].relayed = @ + 1,
                                  ![c].forwarded = Append(@, <<"tunnelled">>)]
       \/ /\ conn[c].relayed < MaxRelay
          /\ conn' = [conn EXCEPT ![c].relayed = @ + 1,
                                  ![c].written = Append(@, <<"tunnelled">>),
                                  ![c].sent = Append(@, <<"tunnelled">>)]
       \/ conn' = [conn EXCEPT ![c] = tunnel_return(conn[c])]
    /\ UNCHANGED <<envVars, caVars, faults, codec, srvVars, history>>

\* lines 145-146: the upstream socket is created and dialled
HttpDial(c) ==
    /\ conn[c].pc = "http_dial"
    /\ \/ conn' = [conn EXCEPT ![c].pc = "http_send", ![c].dial = "ok",
                               ![c].target_socket = "open"]
       \/ conn' = [conn EXCEPT ![c].pc = "http_502", ![c].dial = "failed",
                               ![c].target_socket = "open", ![c].failed = TRUE]
    /\ UNCHANGED <<envVars, caVars, faults, codec, srvVars, history>>

\* line 149: target_socket.sendall(data); the upstream prepares its answer
HttpSendTo(c, answers) ==
    /\ conn[c].pc = "http_send"
    /\ \/ /\ \E u \in answers :
                conn' = [conn EXCEPT ![c].forwarded = Append(@, conn[c].data),
                                     ![c].upstream = u, ![c].pc = "http_recv"]
          /\ UNCHANGED faults
       \/ /\ MayFault
          /\ faults' = faults + 1
          /\ conn' = [conn EXCEPT ![c].pc = "http_502", ![c].failed = TRUE]
    /\ UNCHANGED <<envVars, caVars, codec, srvVars, history>>

HttpSend(c) == HttpSendTo(c, UpstreamData)

\* lines 162-163: the response is parsed; a ValueError goes to line 171
http_parse_response(h) ==
    IF ResponseFromRaw(h.response_data).ok
    THEN [h EXCEPT !.pc = "callback"]
    ELSE Raise([h EXCEPT !.pc = "http_502"])

\* lines 153-163: one round of the receive loop: recv() returns the next chunk
\* of the answer, or nothing once the upstream has closed
http_recv(h) ==
    LET chunk == IF Len(h.upstream) > 0 THEN Head(h.upstream) ELSE <<>>
        more == [h EXCEPT !.response_data = @ \o chunk, !.upstream = Tail(@)]
    IN  IF Len(chunk) = 0 THEN http_parse_response(h)
        ELSE IF ByteLen(chunk) < RecvSize THEN http_parse_response(more)
        ELSE more

HttpRecv(c) ==
    /\ conn[c].pc = "http_recv"
    /\ \/ /\ conn' = [conn EXCEPT ![c] = http_recv(conn[c])]
          /\ UNCHANGED faults
       \/ /\ MayFault
          /\ faults' = faults + 1
          /\ conn' = [conn EXCEPT ![c].pc = "http_502", ![c].failed = TRUE]
    /\ UNCHANGED <<envVars, caVars, codec, srvVars, history>>

\* an append that starts from a stale, empty read of the list
on_request_response_lost(h, request, response) ==
    <<[request |-> request, response |-> response]>>

\* server.py line 79: self.history.append((request, response))
on_request_response(h, request, response) ==
    Append(h, [request |-> request, response |-> response])

\* handler.py lines 163-164 call server.py lines 77-79
Callback(c) ==
    /\ conn[c].pc = "callback"
    /\ history' = on_request_response(history, conn[c].request,
                                      ResponseFromRaw(conn[c].response_data))
    /\ conn' = [conn EXCEPT ![c].callbacks = @ + 1,
                   ![c].pc = IF config.storage THEN "storage" ELSE "http_forward"]
    /\ UNCHANGED <<envVars, caVars, faults, codec, srvVars>>

\* server.py lines 81-82: self.storage.save_request_response(request, response)
StorageSave(c) ==
    /\ conn[c].pc = "storage"
    /\ \/ /\ Goto(c, "http_forward")
          /\ UNCHANGED faults
       \/ /\ MayFault
          /\ faults' = faults + 1
          /\ conn' = [conn EXCEPT ![c].pc = "http_502", ![c].failed = TRUE]
    /\ UNCHANGED <<envVars, caVars, codec, srvVars, history>>

\* lines 167-169: self.client_socket.sendall(response_data), then
\* target_socket.close() and the return to handle
http_forward(h) ==
    handle_finally([h EXCEPT !.written = Append(@, h.response_data),
                             !.sent = Append(@, h.response_data),
                             !.target_socket = "closed"])

HttpForward(c) ==
    /\ conn[c].pc = "http_forward"
    /\ \/ /\ conn' = [conn EXCEPT ![c] = http_forward(conn[c])]
          /\ UNCHANGED faults
       \/ /\ MayFault
          /\ faults' = faults + 1
          /\ conn' = [conn EXCEPT ![c].written = Append(@, conn[c].response_data),
                                  ![c].pc = "http_502", ![c].failed = TRUE]
    /\ UNCHANGED <<envVars, caVars, codec, srvVars, history>>

\* lines 171-173: except: the 502 is sent (the send itself may raise), and
\* _handle_http returns to handle
http_except(h) ==
    handle_finally([h EXCEPT !.written = Append(@, Msg502),
                             !.sent = Append(@, Msg502)])

Http502(c) ==
    /\ conn[c].pc = "http_502"
    /\ \/ /\ conn' = [conn EXCEPT ![c] = http_except(conn[c])]
          /\ UNCHANGED faults
       \/ /\ MayFault
          /\ faults' = faults + 1
          /\ conn' = [conn EXCEPT ![c] =
                         handle_finally([conn[c] EXCEPT !.written = Append(@, Msg502)])]
    /\ UNCHANGED <<envVars, caVars, codec, srvVars, history>>

(***************************************************************************)
(* scanner/proxy/server.py : ProxyServer                                   *)
(***************************************************************************)
\* lines 42-43: self.server_socket = socket.socket(...)
StartSocket ==
    /\ startPc = "start"
    /\ server_socket' = "created"
    /\ startPc' = "bind"
    /\ UNCHANGED <<envVars, caVars, faults, codec, config, running, stopPc, accepted,
                   history, conn>>

\* lines 44-45: bind and listen; both raise on a socket that was closed
StartListen ==
    /\ startPc = "bind"
    /\ IF server_socket = "closed"
       THEN startPc' = "raised" /\ UNCHANGED server_socket
       ELSE startPc' = "set_running" /\ server_socket' = "listening"
    /\ UNCHANGED <<envVars, caVars, faults, codec, config, running, stopPc, accepted,
                   history, conn>>

\* line 46: self.running = True
StartRunning ==
    /\ startPc = "set_running"
    /\ running' = TRUE
    /\ startPc' = "loop"
    /\ UNCHANGED <<envVars, caVars, faults, codec, config, server_socket, stopPc, accepted,
                   history, conn>>

\* line 50: while self.running
LoopCheck ==
    /\ startPc = "loop"
    /\ startPc' = IF running THEN "accept" ELSE "returned"
    /\ UNCHANGED <<envVars, caVars, faults, codec, config, running, server_socket, stopPc,
                   accepted, history, conn>>

\* line 52: accept() returns the next client
Accept ==
    /\ startPc = "accept"
    /\ server_socket = "listening"
    /\ accepted < MaxThreads
    /\ accepted' = accepted + 1
    /\ conn' = [conn EXCEPT ![accepted + 1] =
                   [NoConn EXCEPT !.pc = "accepted", !.client_socket = "open"]]
    /\ startPc' = "spawn"
    /\ UNCHANGED <<envVars, caVars, faults, codec, config, running, server_socket, stopPc,
                   history>>

\* lines 52, 66-68: accept() raises on the closed socket; the loop goes on
AcceptError ==
    /\ startPc = "accept"
    /\ server_socket = "closed"
    /\ startPc' = "loop"
    /\ UNCHANGED <<envVars, caVars, faults, codec, config, running, server_socket, stopPc,
                   accepted, history, conn>>

\* lines 56-65: the handler is built and its thread started
Spawn ==
    /\ startPc = "spawn"
    /\ conn' = [conn EXCEPT ![accepted].pc = "start"]
    /\ startPc' = "loop"
    /\ UNCHANGED <<envVars, caVars, faults, codec, config, running, server_socket, stopPc,
                   accepted, history>>

\* line 72: self.running = False
StopFlag ==
    /\ stopPc = "idle"
    /\ running' = FALSE
    /\ stopPc' = "close"
    /\ UNCHANGED <<envVars, caVars, faults, codec, config, server_socket, startPc, accepted,
                   history, conn>>

\* lines 73-75: if self.server_socket: self.server_socket.close()
StopClose ==
    /\ stopPc = "close"
    /\ server_socket' = IF server_socket # "none" THEN "closed" ELSE server_socket
    /\ stopPc' = "done"
    /\ UNCHANGED <<envVars, caVars, faults, codec, config, running, startPc, accepted,
                   history, conn>>

HandlerStep(c) ==
    \/ HandleRecv(c)
    \/ ConnectDial(c)
    \/ Connect200(c)
    \/ Connect502(c)
    \/ TlsGetCertificate(c)
    \/ TlsGotCertificate(c)
    \/ TlsWrapClient(c)
    \/ TlsWrapTarget(c)
    \/ TlsRecvRequest(c)
    \/ TlsSendRequest(c)
    \/ TlsRecvResponse(c)
    \/ Tunnel(c)
    \/ HttpDial(c)
    \/ HttpSend(c)
    \/ HttpRecv(c)
    \/ Callback(c)
    \/ StorageSave(c)
    \/ HttpForward(c)
    \/ Http502(c)

\* ProxyServer.__init__: the state after construction
InitProxy ==
    /\ config \in [tls_intercept : BOOLEAN, storage : BOOLEAN,
                   exclude_domains : {{}, {HostA}}]
    /\ keyCount = IF config.tls_intercept THEN 1 ELSE 0
    /\ files = IF config.tls_intercept
               THEN Put(Put(<<>>, ca_cert_path, CACertificate(1)),
                        ca_key_path, PrivateKey(1))
               ELSE <<>>
    /\ fileWrites = IF config.tls_intercept
                    THEN Put(Put(<<>>, ca_cert_path, 1), ca_key_path, 1)
                    ELSE <<>>
    /\ faults = 0
    /\ tls = [t \in Threads |-> IdleThread]
    /\ calls = [t \in Threads |-> 0]
    /\ codec = IdleCodec
    /\ running = FALSE
    /\ server_socket = "none"
    /\ startPc = "start"
    /\ stopPc = "idle"
    /\ accepted = 0
    /\ history = <<>>
    /\ conn = [c \in Conns |-> NoConn]
    /\ NoEnv

NextProxy ==
    \/ StartSocket
    \/ StartListen
    \/ StartRunning
    \/ LoopCheck
    \/ Accept
    \/ AcceptError
    \/ Spawn
    \/ StopFlag
    \/ StopClose
    \/ \E c \in Conns : HandlerStep(c)
    \/ \E t \in Threads : GetCertificateStep(t)

SpecProxy == InitProxy /\ [][NextProxy]_vars

\* one handler on one accepted connection: the state after
\* ProxyHandler.__init__ (handler.py lines 21-36) in a running server
HandlerAccepted ==
    /\ config \in [tls_intercept : BOOLEAN, storage : BOOLEAN,
                   exclude_domains : {{}, {HostA}}]
    /\ keyCount = IF config.tls_intercept THEN 1 ELSE 0
    /\ files = IF config.tls_intercept
               THEN Put(Put(<<>>, ca_cert_path, CACertificate(1)),
                        ca_key_path, PrivateKey(1))
               ELSE <<>>
    /\ fileWrites = IF config.tls_intercept
                    THEN Put(Put(<<>>, ca_cert_path, 1), ca_key_path, 1)
                    ELSE <<>>
    /\ faults = 0
    /\ tls = [t \in Threads |-> IdleThread]
    /\ calls = [t \in Threads |-> 0]
    /\ codec = IdleCodec
    /\ running = TRUE
    /\ server_socket = "listening"
    /\ startPc = "accept"
    /\ stopPc = "idle"
    /\ accepted = 1
    /\ history = <<>>
    /\ conn = [c \in Conns |-> IF c = 1
                               THEN [NoConn EXCEPT !.pc = "start",
                                                   !.client_socket = "open"]
                               ELSE NoConn]

InitHandler == HandlerAccepted /\ NoEnv

NextHandler ==
    \/ HandlerStep(1)
    \/ GetCertificateStep(1)

SpecHandler == InitHandler /\ [][NextHandler]_vars

(***************************************************************************)
(* One handler whose peers may stall: a stalled peer sends nothing more    *)
(* and never closes, so a receive from it never returns                    *)
(***************************************************************************)
Sides == {"client", "upstream"}

\* the handler is inside a call that returns only when the client sends:
\* recv (handler.py lines 42, 107), the server-side handshake (line 97)
ClientWaits == {"start", "tls_wrap_client", "tls_recv_req"}

\* the same for the upstream: the client-side handshake (lines 100-102) and
\* recv (lines 113, 154); no socket of the handler has a timeout set
UpstreamWaits == {"tls_wrap_target", "tls_recv_resp", "http_recv"}

Blocked(c) ==
    \/ conn[c].pc \in ClientWaits /\ "client" \in stalled
    \/ conn[c].pc \in UpstreamWaits /\ "upstream" \in stalled

\* a peer stops sending for good
PeerStalls(side) ==
    /\ side \notin stalled
    /\ stalled' = stalled \cup {side}
    /\ UNCHANGED <<caVars, faults, codec, srvVars, history, conn,
                   intercept_enabled, caller, tun>>

\* a step of the handler thread, which is runnable unless it is blocked
StallStep(c) == ~Blocked(c) /\ HandlerStep(c)

NextStall ==
    \/ \E side \in Sides : PeerStalls(side)
    \/ StallStep(1)
    \/ GetCertificateStep(1)

SpecStall == InitHandler /\ [][NextStall]_vars

(***************************************************************************)
(* scanner/proxy/server.py : get_history, set_intercept and their caller   *)
(***************************************************************************)
\* return self.history: the caller is given the server's own list object
get_history_alias(h) == [ref |-> "history", items |-> <<>>, taken |-> h, changed |-> "no"]

\* list.copy(): a new list object holding the items of the list; "taken"
\* remembers what the history was when the call returned and "changed" what
\* the caller did to the list since
get_history(h) == [ref |-> "copy", items |-> h, taken |-> h, changed |-> "no"]

\* the items of a list the caller holds: its own when it is a copy
ListItems(l) == IF l.ref = "copy" THEN l.items ELSE history

\* lines 84-86: return self.history.copy(); the caller keeps the list it was
\* given last
GetHistory ==
    /\ caller' = [caller EXCEPT !.lists = <<get_history(history)>>]
    /\ UNCHANGED <<caVars, faults, codec, srvVars, history, conn,
                   intercept_enabled, stalled, tun>>

\* what the caller appends to a list it was given: a pair of its own, which
\* no exchange produces
Marker == [request |-> ParseError, response |-> ResponseParseError]

\* the caller appends to a returned list: returned.append(x)
CallerAppends(i) ==
    /\ i \in 1..Len(caller.lists)
    /\ caller.lists[i].changed = "no"
    /\ IF caller.lists[i].ref = "copy"
       THEN /\ caller' = [caller EXCEPT !.lists[i].items = Append(@, Marker),
                                        !.lists[i].changed = "append"]
            /\ UNCHANGED history
       ELSE /\ caller' = [caller EXCEPT !.lists[i].changed = "append"]
            /\ history' = Append(history, Marker)
    /\ UNCHANGED <<caVars, faults, codec, srvVars, conn,
                   intercept_enabled, stalled, tun>>

\* the caller removes the last element of a returned list: returned.pop()
CallerPops(i) ==
    /\ i \in 1..Len(caller.lists)
    /\ caller.lists[i].changed = "no"
    /\ Len(ListItems(caller.lists[i])) > 0
    /\ IF caller.lists[i].ref = "copy"
       THEN /\ caller' = [caller EXCEPT
                    !.lists[i].items = SubSeq(@, 1, Len(@) - 1),
                    !.lists[i].changed = "pop"]
            /\ UNCHANGED history
       ELSE /\ caller' = [caller EXCEPT !.lists[i].changed = "pop"]
            /\ history' = SubSeq(history, 1, Len(history) - 1)
    /\ UNCHANGED <<caVars, faults, codec, srvVars, conn,
                   intercept_enabled, stalled, tun>>

\* a handler of a plain-HTTP exchange that has parsed the upstream's answer
\* and is about to call the callback (handler.py line 164)
AtCallback(response_data) ==
    [handle_http([NoConn EXCEPT !.client_socket = "open"], GetLine(UrlAbsA))
        EXCEPT !.pc = "callback", !.dial = "ok", !.target_socket = "open",
               !.forwarded = <<GetLine(UrlAbsA)>>,
               !.response_data = response_data]

\* the answer of the upstream to handler c: one that parses
AnswerTo(c) == IF c % 2 = 1 THEN ResponseOK ELSE ResponseHead \o <<"fill">>

\* a pair the history held before
EarlierPair ==
    [request |-> RequestFromRaw(GetLine(UrlRoot)),
     response |-> ResponseFromRaw(ResponseOK)]

\* every handler thread is about to call on_request_response
InitApi ==
    /\ config \in [tls_intercept : {FALSE}, storage : BOOLEAN,
                   exclude_domains : {{}}]
    /\ files = <<>>
    /\ fileWrites = <<>>
    /\ keyCount = 0
    /\ faults = 0
    /\ tls = [t \in Threads |-> IdleThread]
    /\ calls = [t \in Threads |-> 0]
    /\ codec = IdleCodec
    /\ running = TRUE
    /\ server_socket = "listening"
    /\ startPc = "accept"
    /\ stopPc = "idle"
    /\ accepted = MaxThreads
    /\ history \in {<<>>, <<EarlierPair>>}
    /\ conn = [c \in Conns |-> AtCallback(AnswerTo(c))]
    /\ NoEnv

NextApi ==
    \/ \E c \in Conns : Callback(c)
    \/ \E c \in Conns : StorageSave(c)
    \/ GetHistory
    \/ CallerAppends(1)
    \/ CallerPops(1)

SpecApi == InitApi /\ [][NextApi]_vars

(***************************************************************************)
(* scanner/proxy/handler.py : _tunnel, step by step, with the two peers    *)
(*                                                                         *)
(* Data moves in chunks.  avail[s] is what has arrived from side s and is  *)
(* readable on the proxy's socket, pending[s] what the proxy has sent to s *)
(* and s has not read yet; each buffer holds BufCap chunks.  A peer that   *)
(* still has chunks to send while the buffer towards the proxy is full is  *)
(* blocked in its own send and reads nothing until that send goes through. *)
(***************************************************************************)
TunnelSides == {"client", "target"}

\* _tunnel has just been called
TunnelEntered(tosend) ==
    [pc |-> "select", r |-> {}, tosend |-> tosend,
     avail |-> [s \in TunnelSides |-> 0],
     pending |-> [s \in TunnelSides |-> 0],
     got |-> [s \in TunnelSides |-> 0],
     closed |-> {}]

Running == tun.pc \notin {"none", "returned"}

\* what select reports as readable: a socket with data or at end of stream
Readable == {s \in TunnelSides : tun.avail[s] > 0 \/ s \in tun.closed}

\* line 195-197: select with a timeout of one second; nothing readable: break
TunnelSelect ==
    /\ tun.pc = "select"
    /\ tun' = [tun EXCEPT !.r = Readable,
                  !.pc = IF Readable = {} THEN "returned"
                         ELSE IF "client" \in Readable THEN "recv_client"
                         ELSE "recv_target"]
    /\ UNCHANGED <<caVars, faults, codec, srvVars, history, conn,
                   intercept_enabled, caller, stalled>>

\* after the client's part of a round: line 205, if target_sock in r
after_client == IF "target" \in tun.r THEN "recv_target" ELSE "select"

\* lines 200-202 and 206-208: recv(4096); no data: break
TunnelRecv(side, next) ==
    /\ tun.pc = "recv_" \o side
    /\ tun' = IF tun.avail[side] > 0
              THEN [tun EXCEPT !.avail[side] = @ - 1, !.pc = next]
              ELSE [tun EXCEPT !.pc = "returned"]
    /\ UNCHANGED <<caVars, faults, codec, srvVars, history, conn,
                   intercept_enabled, caller, stalled>>

\* lines 203 and 209: sendall(data) returns once the data fits the buffer
\* towards the receiver; it raises when the receiver has closed, which the
\* except of line 210 swallows
TunnelSendall(dest, at, next) ==
    /\ tun.pc = at
    /\ \/ /\ dest \in tun.closed
          /\ tun' = [tun EXCEPT !.pc = "returned"]
       \/ /\ dest \notin tun.closed
          /\ tun.pending[dest] < BufCap
          /\ tun' = [tun EXCEPT !.pending[dest] = @ + 1, !.pc = next]
    /\ UNCHANGED <<caVars, faults, codec, srvVars, history, conn,
                   intercept_enabled, caller, stalled>>

TunnelRecvClient == TunnelRecv("client", "send_target")
TunnelSendTarget == TunnelSendall("target", "send_target", after_client)
TunnelRecvTarget == TunnelRecv("target", "send_client")
TunnelSendClient == TunnelSendall("client", "send_client", "select")

\* a peer with data left whose send does not go through
BlockedSending(side) == tun.tosend[side] > 0 /\ tun.avail[side] = BufCap

\* a peer sends its next chunk
PeerSends(side) ==
    /\ Running
    /\ side \notin tun.closed
    /\ tun.tosend[side] > 0
    /\ tun.avail[side] < BufCap
    /\ tun' = [tun EXCEPT !.tosend[side] = @ - 1, !.avail[side] = @ + 1]
    /\ UNCHANGED <<caVars, faults, codec, srvVars, history, conn,
                   intercept_enabled, caller, stalled>>

\* a peer reads what the proxy has sent it
PeerReads(side) ==
    /\ Running
    /\ side \notin tun.closed
    /\ tun.pending[side] > 0
    /\ ~BlockedSending(side)
    /\ tun' = [tun EXCEPT !.pending[side] = @ - 1, !.got[side] = @ + 1]
    /\ UNCHANGED <<caVars, faults, codec, srvVars, history, conn,
                   intercept_enabled, caller, stalled>>

\* a peer that has sent everything closes
PeerCloses(side) ==
    /\ Running
    /\ side \notin tun.closed
    /\ tun.tosend[side] = 0
    /\ tun' = [tun EXCEPT !.closed = @ \cup {side}]
    /\ UNCHANGED <<caVars, faults, codec, srvVars, history, conn,
                   intercept_enabled, caller, stalled>>

\* _tunnel is called on a connection whose peers have some chunks to send
InitTunnel ==
    /\ HandlerAccepted
    /\ intercept_enabled = FALSE
    /\ caller = IdleCaller
    /\ stalled = {}
    /\ tun \in {TunnelEntered(tosend) : tosend \in [TunnelSides -> 0..MaxChunks]}

NextTunnel ==
    \/ TunnelSelect
    \/ TunnelRecvClient
    \/ TunnelSendTarget
    \/ TunnelRecvTarget
    \/ TunnelSendClient
    \/ \E side \in TunnelSides : PeerSends(side)
    \/ \E side \in TunnelSides : PeerReads(side)
    \/ \E side \in TunnelSides : PeerCloses(side)

SpecTunnel == InitTunnel /\ [][NextTunnel]_vars

(***************************************************************************)
(* A proxy that serves one client while the owner toggles interception     *)
(***************************************************************************)
\* set_intercept, server.py lines 88-91: the flag is stored; set_at remembers
\* how many connections had been accepted when the last call returned
SetIntercept(enabled) ==
    /\ intercept_enabled' = enabled
    /\ caller' = [caller EXCEPT !.set_at = accepted]
    /\ UNCHANGED <<caVars, faults, codec, srvVars, history, conn, stalled, tun>>

\* the one client of this run connects
AcceptFirst == accepted = 0 /\ Accept

NextServe ==
    \/ StartSocket
    \/ StartListen
    \/ StartRunning
    \/ LoopCheck
    \/ AcceptFirst
    \/ Spawn
    \/ HandlerStep(1)
    \/ GetCertificateStep(1)
    \/ \E enabled \in BOOLEAN : SetIntercept(enabled)

SpecServe == InitProxy /\ [][NextServe]_vars

(***************************************************************************)
(* One plain-HTTP exchange, with requests that name their upstream in      *)
(* different ways and answers that arrive split over several recv calls    *)
(***************************************************************************)
HostHeader == <<"H", "o", "s", "t">>
Port81 == <<"8", "1">>
UrlAbsPort == <<"h", "t", "t", "p", ":", "/", "/", "a", ":">> \o Port81 \o <<"/">>

\* a request with a relative target and a Host header
GetWithHost(url, host) ==
    GET \o <<SP>> \o url \o <<SP>> \o HTTP11 \o CRLF
    \o HostHeader \o <<COLON, SP>> \o host \o CRLF \o CRLF

HttpClientData ==
    { GetLine(UrlAbsA), GetLine(UrlAbsPort), GetWithHost(UrlRoot, HostA),
      GetWithHost(UrlRoot, HostA \o <<COLON>> \o Port81) }

\* answers as the chunks recv() returns: whole, split after the head, a full
\* buffer at the end, a full buffer followed by the rest
HttpUpstreamData ==
    { <<ResponseOK>>,
      <<ResponseHead, <<"h", "i">>>>,
      <<ResponseHead \o <<"fill">>>>,
      <<ResponseHead \o <<"fill">>, <<"h", "i">>>> }

NextHttp ==
    \/ HandleRecvFrom(1, HttpClientData)
    \/ HttpDial(1)
    \/ HttpSendTo(1, HttpUpstreamData)
    \/ HttpRecv(1)
    \/ Callback(1)
    \/ StorageSave(1)
    \/ HttpForward(1)
    \/ Http502(1)

SpecHttp == InitHandler /\ [][NextHttp]_vars

\* no proxy is running
NoProxy ==
    /\ config = [tls_intercept |-> TRUE, storage |-> FALSE, exclude_domains |-> {}]
    /\ running = FALSE
    /\ server_socket = "none"
    /\ startPc = "start"
    /\ stopPc = "idle"
    /\ accepted = 0
    /\ history = <<>>
    /\ conn = [c \in Conns |-> NoConn]
    /\ NoEnv

\* TLSCertificateManager.__init__ on an empty certificate directory
InitCA ==
    /\ files = <<>>
    /\ fileWrites = <<>>
    /\ keyCount = 0
    /\ faults = 0
    /\ tls = [t \in Threads |-> IdleThread]
    /\ calls = [t \in Threads |-> 0]
    /\ codec = IdleCodec
    /\ NoProxy

NextCA ==
    \/ EnsureCertificate
    \/ \E t \in Threads : CallGetCertificate(t)
    \/ \E t \in Threads : CheckExists(t)
    \/ \E t \in Threads : LoadCA(t)
    \/ \E t \in Threads : OpenCertFile(t)
    \/ \E t \in Threads : WriteCertFile(t)
    \/ \E t \in Threads : OpenKeyFile(t)
    \/ \E t \in Threads : WriteKeyFile(t)
    \/ \E t \in Threads : LeaveGetCertificate(t)

SpecCA == InitCA /\ [][NextCA]_vars

\* ProxyServer.__init__ with tls_intercept, server.py lines 31-35: another
\* server is constructed on the same certificate directory
ConstructServer ==
    /\ caller.built < MaxCalls
    /\ ensure_certificate
    /\ caller' = [caller EXCEPT !.built =
                     IF Exists(ca_cert_path) /\ Exists(ca_key_path)
                     THEN @ + 1 ELSE @]
    /\ UNCHANGED <<faults, tls, calls, codec, srvVars, history, conn,
                   intercept_enabled, stalled, tun>>

\* servers are constructed while two handler threads have leaves issued
NextRoot ==
    \/ EnsureCertificate
    \/ ConstructServer
    \/ \E t \in {1, 2} : CallGetCertificate(t)
    \/ \E t \in {1, 2} : GetCertificateStep(t)
    \/ \E t \in {1, 2} : LeaveGetCertificate(t)

SpecRoot == InitCA /\ [][NextRoot]_vars

\* a request is built and put through to_raw and from_raw
InitCodec ==
    /\ files = <<>>
    /\ fileWrites = <<>>
    /\ keyCount = 0
    /\ faults = 0
    /\ tls = [t \in Threads |-> IdleThread]
    /\ calls = [t \in Threads |-> 0]
    /\ codec \in {[IdleCodec EXCEPT !.pc = "request", !.request = r] :
                    r \in SampleRequests}
    /\ NoProxy

NextCodec ==
    \/ SerializeRequest
    \/ ParseRequest

SpecCodec == InitCodec /\ [][NextCodec]_vars

\* responses with a status code in 100..599, ASCII header values and bodies
\* of any bytes
SampleResponses ==
    [status_code : {100, 200, 404, 599}, headers : SampleHeaders,
     body : {<<>>, <<"a">>, <<BadByte, "a">>, CRLF \o CRLF \o <<"a">>}]

\* r.to_raw() of a response
SerializeResponse ==
    /\ codec.pc = "response"
    /\ codec' = [codec EXCEPT !.pc = "raw_response",
                              !.raw = ResponseToRaw(codec.request)]
    /\ UNCHANGED <<envVars, caVars, faults, srvVars, history, conn>>

\* HttpResponse.from_raw(raw)
ParseResponse ==
    /\ codec.pc = "raw_response"
    /\ codec' = [codec EXCEPT !.pc = "parsed_response",
                              !.parsed = ResponseFromRaw(codec.raw)]
    /\ UNCHANGED <<envVars, caVars, faults, srvVars, history, conn>>

\* a response is built and put through to_raw and from_raw
InitResponse ==
    /\ files = <<>>
    /\ fileWrites = <<>>
    /\ keyCount = 0
    /\ faults = 0
    /\ tls = [t \in Threads |-> IdleThread]
    /\ calls = [t \in Threads |-> 0]
    /\ codec \in {[IdleCodec EXCEPT !.pc = "response", !.request = r] :
                    r \in SampleResponses}
    /\ NoProxy

NextResponse ==
    \/ SerializeResponse
    \/ ParseResponse

SpecResponse == InitResponse /\ [][NextResponse]_vars

(***************************************************************************)
(* Properties of the certificate manager, under SpecCA                     *)
(***************************************************************************)
InCall(t) == tls[t].pc # "idle"
Issuing(t) == tls[t].key # 0

\* C1: concurrent callers of get_certificate_for_host(h), while no
\* certificate for h exists, are all handed the same two paths, and only one
\* of them issues: no two callers for the same hostname are both generating
\* and writing the pair.
C1_SingleFlight ==
    \A t1, t2 \in Threads :
        (t1 # t2 /\ InCall(t1) /\ InCall(t2) /\ tls[t1].hostname = tls[t2].hostname)
        => /\ tls[t1].cert_path = tls[t2].cert_path
           /\ tls[t1].key_path = tls[t2].key_path
           /\ ~(Issuing(t1) /\ Issuing(t2))

\* C8: the certificate that get_certificate_for_host(h) returns names h in
\* its CN and in its SAN, whatever other hostnames were served before, and it
\* is signed by the key of the root certificate.
C8_CertificateNamesHost ==
    \A t \in Threads :
        (tls[t].pc = "return" /\ files[tls[t].cert_path].kind = "cert")
        => /\ files[tls[t].cert_path].cn = tls[t].hostname
           /\ files[tls[t].cert_path].san = {<<"DNS", tls[t].hostname>>}
           /\ files[tls[t].cert_path].signer = files[ca_key_path].key

(***************************************************************************)
(* Properties of the codec, under SpecCodec                                *)
(***************************************************************************)
\* headers as a set of case-insensitive key/value pairs
HeaderSet(headers) ==
    {<<Lower(headers[i][1]), headers[i][2]>> : i \in 1..Len(headers)}

\* C7: from_raw(r.to_raw()) has the method, the target, the header set and
\* the body bytes of r (an absent body and an empty body both count as no
\* bytes).
C7_RequestRoundTrip ==
    codec.pc = "parsed"
    => /\ codec.parsed.ok
       /\ codec.parsed.method = codec.request.method
       /\ codec.parsed.url = codec.request.url
       /\ HeaderSet(codec.parsed.headers) = HeaderSet(codec.request.headers)
       /\ codec.parsed.body.bytes = codec.request.body.bytes

(***************************************************************************)
(* Properties of the handler (SpecHandler) and the server (SpecProxy)      *)
(***************************************************************************)
Done(c) == conn[c].pc = "done"
InFlight(c) == conn[c].pc \notin {"none", "accepted", "done"}
Closed(state) == state \in {"none", "closed"}
Has(seq, m) == \E i \in 1..Len(seq) : seq[i] = m
\* the target host matches an entry of exclude_domains
Excluded(host) == \E domain \in config.exclude_domains : Contains(host, domain)
\* all the bytes the upstream sent in answer to the plain-HTTP request
RECURSIVE Flatten(_)
Flatten(chunks) ==
    IF Len(chunks) = 0 THEN <<>> ELSE Head(chunks) \o Flatten(Tail(chunks))
Answer(c) == conn[c].response_data \o Flatten(conn[c].upstream)

\* C2: when a handler has returned, the client socket and every upstream
\* socket it opened, and their TLS-wrapped forms, have been closed.
C2_AllSocketsClosed ==
    \A c \in Conns :
        Done(c) => /\ conn[c].client_socket = "closed"
                   /\ Closed(conn[c].target_socket)
                   /\ Closed(conn[c].client_ssl)
                   /\ Closed(conn[c].target_ssl)

\* C3: when the dial of a CONNECT target fails, the handler writes a 502 to
\* the client socket, never writes the 200, and has closed the upstream
\* socket and the client socket when it returns.
C3_ConnectDialFailure ==
    \A c \in Conns :
        (Done(c) /\ conn[c].mode = "CONNECT" /\ conn[c].dial = "failed")
        => /\ Has(conn[c].written, Msg502)
           /\ ~Has(conn[c].written, Msg200)
           /\ faults = 0 => conn[c].sent = <<Msg502>>
           /\ conn[c].target_socket = "closed"
           /\ conn[c].client_socket = "closed"

\* a CONNECT whose dial failed has run to its end
C3_Witness ==
    \E c \in Conns :
        /\ Done(c) /\ conn[c].mode = "CONNECT" /\ conn[c].dial = "failed"
        /\ conn[c].sent = <<Msg502>>

\* the plaintext exchange of an intercepted connection is complete and well
\* formed
Intercepted(c) ==
    /\ conn[c].mode = "CONNECT" /\ config.tls_intercept
    /\ ~Excluded(conn[c].target_host)
    /\ conn[c].client_ssl # "none" /\ conn[c].target_ssl # "none"
    /\ Len(conn[c].request_data) > 0 /\ Len(conn[c].response_data) > 0
    /\ RequestFromRaw(conn[c].request_data).ok
    /\ ResponseFromRaw(conn[c].response_data).ok

\* C4: an intercepted CONNECT connection whose two handshakes succeeded and
\* whose well-formed request was answered by a well-formed response invokes
\* the observation callback exactly once, with that request and response.
C4_InterceptObservedOnce ==
    \A c \in Conns :
        (Done(c) /\ Intercepted(c))
        => /\ conn[c].callbacks = 1
           /\ Has(history, [request |-> RequestFromRaw(conn[c].request_data),
                            response |-> ResponseFromRaw(conn[c].response_data)])

\* C5: a connection to an excluded host never invokes the observation
\* callback, and (when nothing failed) its client has received exactly the
\* bytes the upstream sent.
C5_ExcludedNotObserved ==
    \A c \in Conns :
        (Done(c) /\ conn[c].dial = "ok" /\ Excluded(conn[c].target_host))
        => /\ conn[c].callbacks = 0
           /\ (conn[c].mode = "HTTP" /\ ~conn[c].failed)
              => conn[c].sent = <<Answer(c)>>

\* C9: in plain-HTTP mode, when the request or the response cannot be parsed
\* and no socket operation failed, the raw request has been forwarded to the
\* upstream, the raw response has been forwarded unchanged to the client, and
\* the callback was not invoked.
C9_ParseFailureStillRelays ==
    \A c \in Conns :
        ( /\ Done(c) /\ conn[c].mode = "HTTP" /\ conn[c].dial = "ok" /\ faults = 0
          /\ \/ ~RequestFromRaw(conn[c].data).ok
             \/ ~ResponseFromRaw(conn[c].response_data).ok )
        => /\ conn[c].forwarded = <<conn[c].data>>
           /\ conn[c].sent = <<conn[c].response_data>>
           /\ conn[c].callbacks = 0

\* stop() has returned, and it was called after start() had set the running
\* flag on its listening socket
StoppedAfterListening ==
    /\ stopPc = "done" /\ ~running
    /\ startPc \in {"loop", "accept", "spawn", "returned"}

\* C6: once a stop() called on a listening server with handlers in flight
\* has returned, no further connection is accepted and no new handler is
\* spawned, and the steps of stop() leave every connection as it is.
C6_StopDrains ==
    [][ /\ (StoppedAfterListening /\ \E c \in Conns : InFlight(c))
           => /\ accepted' = accepted
              /\ \A c \in Conns :
                    conn[c].pc = "accepted" => conn'[c].pc = "accepted"
        /\ stopPc' # stopPc => conn' = conn ]_vars

\* C10: a failure inside one connection's handler leaves the certificate
\* files already issued as they were: when a handler has failed and no
\* issuance is under way, every host's certificate file still goes with the
\* host's key file.
C10_FailureContained ==
    \A c \in Conns :
        (Done(c) /\ conn[c].failed /\ \A t \in Threads : tls[t].pc = "idle")
        => \A h \in Hosts :
              (Exists(CertPath(h)) /\ Exists(KeyPath(h)))
              => LoadCertChainOK(CertPath(h), KeyPath(h))

\* C11: every connection handler returns even when the client or the
\* upstream stops sending and never closes its socket: a handler that has not
\* returned is never inside a call that only the stalled peer could end.
C11_HandlerReturns ==
    \A c \in Conns : InFlight(c) \/ conn[c].pc = "start" => ~Blocked(c)

\* the pair a handler hands to on_request_response
PairOf(c) ==
    [request |-> conn[c].request,
     response |-> ResponseFromRaw(conn[c].response_data)]

\* the on_request_response call of handler c has returned or raised
Returned(c) == conn[c].callbacks = 1 /\ conn[c].pc # "storage"

\* what the history held before the calls
Earlier == IF Len(history) > 0 /\ history[1] = EarlierPair
           THEN <<EarlierPair>> ELSE <<>>

Occurrences(seq, x) == Cardinality({i \in 1..Len(seq) : seq[i] = x})

\* C12: once k concurrent on_request_response calls have returned, the
\* history holds what it held before and exactly the k pairs, each once.
C12_NoLostUpdate ==
    (\A c \in Conns : Returned(c))
    => /\ Len(history) = Len(Earlier) + Cardinality(Conns)
       /\ \A c \in Conns :
             Occurrences(history, PairOf(c))
             = Cardinality({d \in Conns : PairOf(d) = PairOf(c)})

\* all the calls have returned, two of them with different pairs
C12_Witness ==
    /\ \A c \in Conns : Returned(c)
    /\ \E c, d \in Conns : PairOf(c) # PairOf(d)
    /\ Len(Earlier) = 1

\* what a returned list must hold: the history as of the call, changed only
\* by what the caller itself did to the list
Expected(l) ==
    CASE l.changed = "no" -> l.taken
      [] l.changed = "append" -> Append(l.taken, Marker)
      [] l.changed = "pop" -> SubSeq(l.taken, 1, Len(l.taken) - 1)

\* C15: get_history returns a snapshot copy: later on_request_response calls
\* do not change a returned list, and appending to or removing from a
\* returned list does not change the server's history.
C15_SnapshotCopy ==
    \A i \in 1..Len(caller.lists) :
        LET l == caller.lists[i]
        IN  /\ ListItems(l) = Expected(l)
            /\ Len(history) >= Len(l.taken)
            /\ SubSeq(history, 1, Len(l.taken)) = l.taken
            /\ \A j \in 1..Len(history) : history[j] # Marker

\* a returned list was changed by the caller and the history has grown since
\* the call
C15_Witness ==
    \E i \in 1..Len(caller.lists) :
        /\ caller.lists[i].changed # "no"
        /\ Len(caller.lists[i].taken) > 0
        /\ Len(history) > Len(caller.lists[i].taken)

\* C13: the relay never deadlocks: as long as _tunnel has not returned, the
\* proxy or one of the peers can take a step, so bytes that are available on
\* one side are eventually forwarded.
C13_TunnelNeverStuck == Running => ENABLED NextTunnel

\* the first request of connection c cannot be served: its request line or
\* its CONNECT target is malformed, or the upstream cannot be reached
Unservable(c) ==
    \/ conn[c].mode = "CONNECT" /\ ~ConnectTarget(conn[c].data).ok
    \/ conn[c].mode = "HTTP" /\ ~RequestFromRaw(conn[c].data).ok
    \/ conn[c].dial = "failed"

\* C14: when the client has sent a non-empty first request that cannot be
\* served, an HTTP error status has been written to the client by the time
\* the connection is closed; no connection with a non-empty first request
\* is closed without any response on its open plaintext channel.
C14_ErrorStatusWritten ==
    \A c \in Conns :
        (Done(c) /\ Len(conn[c].data) > 0 /\ faults = 0)
        => /\ Unservable(c) => Has(conn[c].sent, Msg502)
           /\ conn[c].client_ssl = "none" => conn[c].sent # <<>>

\* C20: a CONNECT whose target has no port is dialled as host:443 and goes on
\* like a CONNECT that named port 443.
C20_PortDefaults443 ==
    \A c \in Conns :
        (Done(c) /\ conn[c].data = ConnectNoPort(HostA))
        => /\ conn[c].target_host = HostA
           /\ conn[c].target_port = 443
           /\ conn[c].dial # "none"

\* where a handler is while it intercepts TLS, up to the decrypted exchange
TlsStates ==
    {"tls_getcert", "tls_cert_wait", "tls_wrap_client", "tls_wrap_target",
     "tls_recv_req", "tls_send_req", "tls_recv_resp"}

\* C17: after a successful CONNECT dial, when tls_intercept is false or the
\* target host matches exclude_domains, the handler requests no leaf
\* certificate and performs no TLS handshake on either socket.
C17_PassthroughWhenExcluded ==
    \A c \in Conns :
        ( /\ conn[c].mode = "CONNECT" /\ conn[c].dial = "ok"
          /\ ~config.tls_intercept \/ Excluded(conn[c].target_host) )
        => /\ conn[c].pc \notin TlsStates
           /\ conn[c].client_ssl = "none"
           /\ conn[c].target_ssl = "none"

\* C19: in TLS interception, once both handshakes have succeeded and the
\* upstream has answered the client's request with a non-empty response, the
\* raw response bytes are forwarded to the client over its TLS session.
C19_ResponseForwarded ==
    \A c \in Conns :
        ( /\ Done(c) /\ conn[c].mode = "CONNECT" /\ config.tls_intercept
          /\ conn[c].client_ssl # "none" /\ conn[c].target_ssl # "none"
          /\ Len(conn[c].request_data) > 0 /\ Len(conn[c].response_data) > 0
          /\ faults = 0 )
        => Has(conn[c].sent, conn[c].response_data)

\* connection c is a CONNECT handled with TLS interception switched on
TlsPath(c) == conn[c].mode = "CONNECT" /\ config.tls_intercept

\* something was read from the decrypted client stream or relayed
Relayed(c) ==
    \/ Len(conn[c].request_data) > 0 \/ Len(conn[c].response_data) > 0
    \/ Len(conn[c].forwarded) > 0 \/ conn[c].relayed > 0
    \/ \E i \in 1..Len(conn[c].sent) : conn[c].sent[i] \notin {Msg200, Msg502}

\* C18: in TLS interception nothing is read from the decrypted client stream
\* and nothing is relayed before both handshakes have succeeded; the upstream
\* handshake is attempted only after the client handshake succeeded; when a
\* handshake fails the handler returns with nothing relayed.
C18_HandshakesBeforeRelay ==
    \A c \in Conns :
        TlsPath(c)
        => /\ conn[c].pc \in {"tls_recv_req", "tls_send_req", "tls_recv_resp"}
              => conn[c].client_ssl = "open" /\ conn[c].target_ssl = "open"
           /\ conn[c].pc = "tls_wrap_target" => conn[c].client_ssl = "open"
           /\ conn[c].target_ssl # "none" => conn[c].client_ssl # "none"
           /\ Relayed(c)
              => conn[c].client_ssl # "none" /\ conn[c].target_ssl # "none"
           /\ (conn[c].pc = "tunnel" /\ conn[c].client_ssl # "none")
              => conn[c].target_ssl # "none"

\* the client handshake succeeded, the upstream handshake failed, and the
\* handler has returned
C18_Witness ==
    \E c \in Conns :
        /\ TlsPath(c) /\ Done(c) /\ conn[c].failed
        /\ conn[c].client_ssl # "none" /\ conn[c].target_ssl = "none"
        /\ ~Relayed(c)

\* connection c was accepted after the last set_intercept returned
AcceptedAfterSet(c) ==
    caller.set_at >= 0 /\ c > caller.set_at /\ conn[c].pc # "none"

\* C16: a connection accepted after set_intercept(e) returned is handled
\* according to e: its CONNECT is intercepted only when e is true and is
\* tunnelled raw only when e is false.
C16_InterceptFlagConsulted ==
    \A c \in Conns :
        (AcceptedAfterSet(c) /\ conn[c].mode = "CONNECT")
        => /\ conn[c].pc \in TlsStates => intercept_enabled
           /\ (conn[c].pc = "tunnel" /\ conn[c].client_ssl = "none")
              => ~intercept_enabled

\* the request's target is an absolute URL
AbsoluteTarget(url) == Len(UrlNetloc(url)) > 0

\* the upstream a request names: the host and port of its absolute URL, or
\* those of its Host header, the port defaulting to 80
NamedUpstream(request) ==
    LET netloc == IF AbsoluteTarget(request.url) THEN UrlNetloc(request.url)
                  ELSE IF DictHas(request.headers, HostHeader)
                       THEN DictGet(request.headers, HostHeader) ELSE <<>>
        p == Split(netloc, <<COLON>>, 1)
    IN  [host |-> Lower(p[1]),
         port |-> IF Len(p) > 1 /\ IsInt(p[2]) THEN ToInt(p[2])
                  ELSE IF UrlScheme(request.url) = Https THEN 443 ELSE 80]

\* C21: the upstream dialled for a plain-HTTP request is the host and port of
\* its absolute URL, or, for a relative target, the host and port (80 when
\* absent) of its Host header.
C21_UpstreamFromUrlOrHost ==
    \A c \in Conns :
        (conn[c].mode = "HTTP" /\ conn[c].dial # "none")
        => /\ conn[c].target_host = NamedUpstream(conn[c].request).host
           /\ conn[c].target_port = NamedUpstream(conn[c].request).port

\* C26: in plain-HTTP mode the bytes forwarded to the client are the
\* complete response the upstream sent, however it was split across recv
\* calls.
C26_CompleteResponseForwarded ==
    \A c \in Conns :
        (Done(c) /\ conn[c].mode = "HTTP" /\ conn[c].dial = "ok" /\ ~conn[c].failed)
        => conn[c].sent = <<Answer(c)>>

\* C30: every pair a plain-HTTP connection recorded in history is an
\* exchange whose raw upstream response was forwarded to its client: a
\* failure after the append never gives the client a 502 in its place.
C30_RecordedMeansForwarded ==
    \A c \in Conns :
        ( /\ Done(c) /\ conn[c].mode = "HTTP" /\ conn[c].callbacks > 0
          /\ Has(history, [request |-> conn[c].request,
                           response |-> ResponseFromRaw(conn[c].response_data)]) )
        => Has(conn[c].written, conn[c].response_data)

\* C29: on a CONNECT connection the 200 is sent only after the dial has
\* succeeded, and a 200 and a 502 are never both sent, whatever fails after
\* the 200.
C29_Never200And502 ==
    \A c \in Conns :
        conn[c].mode = "CONNECT"
        => /\ Has(conn[c].written, Msg200) => conn[c].dial = "ok"
           /\ ~(Has(conn[c].sent, Msg200) /\ Has(conn[c].sent, Msg502))
           /\ Has(conn[c].sent, Msg200) => conn[c].sent[1] = Msg200

\* the 200 was sent, something failed afterwards, the handler has returned
C29_Witness ==
    \E c \in Conns :
        /\ Done(c) /\ conn[c].mode = "CONNECT" /\ conn[c].failed
        /\ Has(conn[c].sent, Msg200)
        /\ conn[c].client_ssl # "none" /\ conn[c].target_ssl # "none"

\* C23: once get_certificate_for_host(h) has returned its two paths, the
\* certificate file and the key file at those paths are not written again:
\* the pair issued first stays on disk unchanged.
C23_IssuedPairStays ==
    [][\A t \in Threads :
          tls[t].pc = "return"
          => /\ files'[tls[t].cert_path] = files[tls[t].cert_path]
             /\ files'[tls[t].key_path] = files[tls[t].key_path]]_vars

\* C27: whenever get_certificate_for_host returns, the certificate file and
\* the key file at the returned paths are completely written and belong
\* together: the certificate's public key is the key in the key file.
C27_ReturnedPairComplete ==
    \A t \in Threads :
        tls[t].pc = "return"
        => /\ Exists(tls[t].cert_path) /\ Exists(tls[t].key_path)
           /\ files[tls[t].cert_path].kind = "cert"
           /\ files[tls[t].key_path].kind = "key"
           /\ files[tls[t].cert_path].pubkey = files[tls[t].key_path].key

\* the leaf certificates on disk
Leaves ==
    {p \in DOMAIN files : files[p].kind = "cert" /\ p # ca_cert_path}

C28_StopEndsStart ==
    (stopPc = "done" /\ startPc \in {"loop", "accept", "spawn", "returned"})
    => ~running /\ server_socket = "closed"

\* the place of the first x in seq
Index(seq, x) == CHOOSE i \in 1..Len(seq) : seq[i] = x

\* C22: the history lists pairs in the order in which their
\* on_request_response calls returned: while the call of connection c has
\* returned and that of connection d has not, d's pair does not stand before
\* c's.
C22_HistoryInCompletionOrder ==
    \A c, d \in Conns :
        (c # d /\ Returned(c) /\ ~Returned(d) /\ Has(history, PairOf(d)))
        => Index(history, PairOf(c)) < Index(history, PairOf(d))

\* C25: HttpResponse.from_raw(r.to_raw()) succeeds and has the status code,
\* the header set and the body bytes of r.
C25_ResponseRoundTrip ==
    codec.pc = "parsed_response"
    => /\ codec.parsed.ok
       /\ codec.parsed.status_code = codec.request.status_code
       /\ HeaderSet(codec.parsed.headers) = HeaderSet(codec.request.headers)
       /\ codec.parsed.body = codec.request.body

====
